---- MODULE Spec2Model ----
(***************************************************************************)
(* Model of the detection agent of ADKHack/python_agents                   *)
(* (agents/detection_agent.py): construction with optional BigQuery        *)
(* initialisation, detect_and_read with its file lookup, JSON reading and  *)
(* BigQuery logging, query_historical_data and get_bigquery_status.        *)
(*                                                                         *)
(* Python dicts are TLA+ records (functions over their keys).  Values that *)
(* json.load can return with different Python types in the same place are  *)
(* tagged: JNum, JStr, JNull, JList, JObj.  Python strings that the code    *)
(* inspects character-wise (file names, timestamps) are sequences.         *)
(***************************************************************************)
EXTENDS Integers, Sequences, FiniteSets, TLC

\* ---------------------------------------------------------------- bounds
\* readings per file
MaxLen == 2
\* rows the history store holds before the model stops inserting
MaxRows == 2
\* largest reading of the wall clock, in microseconds
MaxClock == 1
\* readings per request of the orchestrator
MaxBatch == 3

\* ---------------------------------------------------------------- JSON
JNum(n) == [t |-> "num", v |-> n]
JStr(s) == [t |-> "str", v |-> s]
JNull == [t |-> "null"]
JList(s) == [t |-> "list", v |-> s]
JObj(d) == [t |-> "obj", v |-> d]

\* dict.get(key, default)
Get(d, k, default) == IF k \in DOMAIN d THEN d[k] ELSE default

\* dict.update(other): the keys of other win
Update(d, other) ==
  [k \in (DOMAIN d) \cup (DOMAIN other) |-> IF k \in DOMAIN other THEN other[k] ELSE d[k]]

\* ---------------------------------------------------------------- time
\* datetime.isoformat(): the text of a clock reading
IsoFormat(n) == <<ToString(n)>>

\* the clock readings whose text datetime.fromisoformat can meet
IsoRange == 0 .. (MaxClock + 8)

\* datetime.fromisoformat(text): [ok, value]; ok = FALSE stands for ValueError
FromIsoFormat(s) ==
  IF Len(s) = 1 /\ \E n \in IsoRange : ToString(n) = s[1]
    THEN [ok |-> TRUE, value |-> CHOOSE n \in IsoRange : ToString(n) = s[1]]
    ELSE [ok |-> FALSE, value |-> 0]

\* str.endswith('Z')
EndsWithZ(s) == Len(s) > 0 /\ s[Len(s)] = "Z"

\* ---------------------------------------------------------------- files
\* characters of paths: '.' sorts before '/', '/' before the letters
Dot == 0
Slash == 1
ChA == 2
ChB == 3
ChJ == 4
ChT == 5

\* "b.j", "ab.j", "a.t"
FileB == <<ChB, Dot, ChJ>>
FileAB == <<ChA, ChB, Dot, ChJ>>
FileT == <<ChA, Dot, ChT>>
FileNames == { FileB, FileAB, FileT }

\* glob patterns "*<suffix>": "*.j" (the default "*.json"), "*.t", "*.b"
DefaultPattern == <<Dot, ChJ>>
Patterns == { DefaultPattern, <<Dot, ChT>>, <<Dot, ChB>> }

\* glob match of "*<suffix>" against a file name
GlobMatch(suffix, name) ==
  /\ Len(name) >= Len(suffix)
  /\ SubSeq(name, Len(name) - Len(suffix) + 1, Len(name)) = suffix

\* Python's str ordering: lexicographic by code point, a proper prefix first
RECURSIVE StrLess(_, _)
StrLess(a, b) ==
  IF Len(a) = 0 THEN Len(b) > 0
  ELSE IF Len(b) = 0 THEN FALSE
  ELSE IF Head(a) # Head(b) THEN Head(a) < Head(b)
  ELSE StrLess(Tail(a), Tail(b))

\* a sort that puts the greatest path first
RECURSIVE SortFilesDescending(_)
SortFilesDescending(S) ==
  IF S = {} THEN <<>>
  ELSE LET m == CHOOSE x \in S : \A y \in S \ {x} : StrLess(y, x)
       IN <<m>> \o SortFilesDescending(S \ {m})

\* list.sort() of a set of distinct strings
RECURSIVE SortFiles(_)
SortFiles(S) ==
  IF S = {} THEN <<>>
  ELSE LET m == CHOOSE x \in S : \A y \in S \ {x} : StrLess(x, y)
       IN <<m>> \o SortFiles(S \ {m})

\* ---------------------------------------------------------------- state
\* Python's None
None == "None"

\* {}
EmptyDict == [k \in {} |-> <<>>]

VARIABLES
  phase,               \* "unconstructed" until __init__ has returned, then "ready"
  BIGQUERY_AVAILABLE,  \* module global: the google.cloud import succeeded
  project_id,          \* self.project_id
  bigquery_client,     \* self.bigquery_client: None or "client"
  bigquery_enabled,    \* self.bigquery_enabled
  table_created,       \* self.table_created
  store_dataset,       \* the store: the dataset exists
  store_table,         \* the store: the table exists
  store_rows,          \* the store: the rows of the table, in insertion order
  clock,               \* the wall clock, last reading
  dir_exists,          \* the data directory exists
  disk,                \* the files of the data directory: name -> what open() meets
  cycle,               \* what the last operation read and which calls it made
  ret,                 \* the last operation and what it returned
  session              \* the orchestrator's self.session: <<>> (None) or its session_id

vars == <<phase, BIGQUERY_AVAILABLE, project_id, bigquery_client, bigquery_enabled,
          table_created, store_dataset, store_table, store_rows, clock,
          dir_exists, disk, cycle, ret, session>>

agent == <<bigquery_client, bigquery_enabled, table_created>>

\* the calls an operation can make to the store and the file system
NoCalls == [client |-> 0, get_project |-> 0, get_dataset |-> 0, create_dataset |-> 0,
            get_table |-> 0, create_table |-> 0, insert |-> 0, query |-> 0,
            find |-> 0, open |-> 0]

NoCycle == [calls |-> NoCalls, input |-> [k \in {} |-> <<>>], file |-> [io |-> "none"],
            opened |-> <<>>, found |-> <<>>, inserted |-> <<>>, store_errors |-> <<>>,
            store_fail |-> "none"]

\* ---------------------------------------------------------------- initialisation
\* what the store does during initialisation: it answers every call for its
\* current state ("none"), or one call fails (connectivity, permission), or
\* another party creates the dataset or the table between the agent's check
\* and its create call, which then reports "already exists" (Conflict)
InitEnvs ==
  [fail : {"none", "client", "get_project", "get_dataset", "create_dataset", "dataset_race",
           "get_table", "create_table", "table_race"}]

\* _ensure_dataset_exists: [ok, exists, calls]; ok = FALSE stands for an exception
EnsureDatasetExists(exists, env, calls) ==
  LET c1 == [calls EXCEPT !.get_dataset = @ + 1] IN
  IF env.fail = "get_dataset" THEN [ok |-> FALSE, exists |-> exists, calls |-> c1]
  ELSE IF exists THEN [ok |-> TRUE, exists |-> TRUE, calls |-> c1]
  ELSE \* NotFound: create the dataset
    LET c2 == [c1 EXCEPT !.create_dataset = @ + 1] IN
    IF env.fail = "dataset_race" THEN [ok |-> FALSE, exists |-> TRUE, calls |-> c2]   \* Conflict
    ELSE IF env.fail = "create_dataset" THEN [ok |-> FALSE, exists |-> FALSE, calls |-> c2]
    ELSE [ok |-> TRUE, exists |-> TRUE, calls |-> c2]

\* _ensure_table_exists: [ok, exists, table_created, calls]
EnsureTableExists(exists, env, calls) ==
  LET c1 == [calls EXCEPT !.get_table = @ + 1] IN
  IF env.fail = "get_table"
    THEN [ok |-> FALSE, exists |-> exists, table_created |-> FALSE, calls |-> c1]
  ELSE IF exists THEN [ok |-> TRUE, exists |-> TRUE, table_created |-> TRUE, calls |-> c1]
  ELSE \* NotFound: create the table
    LET c2 == [c1 EXCEPT !.create_table = @ + 1] IN
    IF env.fail = "table_race"
      THEN [ok |-> FALSE, exists |-> TRUE, table_created |-> FALSE, calls |-> c2]   \* Conflict
    ELSE IF env.fail = "create_table"
      THEN [ok |-> FALSE, exists |-> FALSE, table_created |-> FALSE, calls |-> c2]
    ELSE [ok |-> TRUE, exists |-> TRUE, table_created |-> TRUE, calls |-> c2]

\* _initialize_bigquery: [client, enabled, table_created, dataset, table, calls,
\* store_fail]; enabled = FALSE is the except clause of line 113, store_fail the
\* answer of the store that raised
InitializeBigquery(env) ==
  LET c1 == [NoCalls EXCEPT !.client = 1]
      failed(cl, tc, ds, tb, calls) ==
        [client |-> cl, enabled |-> FALSE, table_created |-> tc,
         dataset |-> ds, table |-> tb, calls |-> calls, store_fail |-> env.fail]
  IN
  IF env.fail = "client" THEN failed(None, FALSE, store_dataset, store_table, c1)
  ELSE
    LET c2 == [c1 EXCEPT !.get_project = 1] IN
    IF env.fail = "get_project" THEN failed("client", FALSE, store_dataset, store_table, c2)
    ELSE
      LET d == EnsureDatasetExists(store_dataset, env, c2) IN
      IF ~d.ok THEN failed("client", FALSE, d.exists, store_table, d.calls)
      ELSE
        LET tb == EnsureTableExists(store_table, env, d.calls) IN
        IF ~tb.ok THEN failed("client", tb.table_created, d.exists, tb.exists, tb.calls)
        ELSE [client |-> "client", enabled |-> TRUE, table_created |-> tb.table_created,
              dataset |-> d.exists, table |-> tb.exists, calls |-> tb.calls,
              store_fail |-> "none"]

\* DetectionAgent.__init__
Construct ==
  /\ phase = "unconstructed"
  /\ \E pid \in {None, "proj"}, env \in InitEnvs :
       /\ project_id' = pid
       /\ IF BIGQUERY_AVAILABLE /\ pid # None
            THEN LET r == InitializeBigquery(env) IN
                 /\ bigquery_client' = r.client
                 /\ bigquery_enabled' = r.enabled
                 /\ table_created' = r.table_created
                 /\ store_dataset' = r.dataset
                 /\ store_table' = r.table
                 /\ cycle' = [NoCycle EXCEPT !.calls = r.calls, !.store_fail = r.store_fail]
                 /\ ret' = [op |-> "__init__", raised |-> FALSE,
                            value |-> [printed |-> IF r.enabled THEN "logging enabled"
                                                   ELSE "initialization failed"]]
            ELSE /\ bigquery_client' = None
                 /\ bigquery_enabled' = FALSE
                 /\ table_created' = FALSE
                 /\ UNCHANGED <<store_dataset, store_table>>
                 /\ cycle' = NoCycle
                 /\ ret' = [op |-> "__init__", raised |-> FALSE, value |-> [printed |-> "nothing"]]
  /\ phase' = "ready"
  /\ UNCHANGED <<BIGQUERY_AVAILABLE, store_rows, clock, dir_exists, disk, session>>

\* ---------------------------------------------------------------- paths
\* self.data_directory: "/a"
DataDirectory == <<Slash, ChA>>

\* os.path.isabs
IsAbs(p) == Len(p) > 0 /\ p[1] = Slash

\* os.path.join(directory, relative path)
PathJoin(d, p) == d \o <<Slash>> \o p

\* os.path.basename: what follows the last '/'
RECURSIVE Basename(_)
Basename(p) ==
  IF \E i \in 1..Len(p) : p[i] = Slash
    THEN Basename(SubSeq(p, (CHOOSE i \in 1..Len(p) : p[i] = Slash) + 1, Len(p)))
    ELSE p

\* a file_path that is not a string (a number, a list), which os.path rejects
NonStr == <<-1>>

\* an absolute path outside the data directory, where no file is: "/b"
OutsidePath == <<Slash, ChB>>

\* _find_json_files
FindJsonFiles(pattern) ==
  IF ~dir_exists THEN <<>>
  ELSE SortFiles({ PathJoin(DataDirectory, n) : n \in { m \in DOMAIN disk : GlobMatch(pattern, m) } })

\* the file at a path exists
FileExists(p) == dir_exists /\ \E n \in DOMAIN disk : p = PathJoin(DataDirectory, n)

\* ---------------------------------------------------------------- readings
Digits == <<"0", "1", "2", "3", "4", "5", "6", "7", "8", "9">>

\* float() of a text: the texts of the model are digit strings or not numbers
RECURSIVE DigitsValue(_)
DigitsValue(s) ==
  IF Len(s) = 0 THEN 0
  ELSE 10 * DigitsValue(SubSeq(s, 1, Len(s) - 1))
       + ((CHOOSE d \in 1..10 : Digits[d] = s[Len(s)]) - 1)

\* float(x): [ok, value]; ok = FALSE stands for ValueError or TypeError
Float(x) ==
  IF x.t = "num" THEN [ok |-> TRUE, value |-> x.v]
  ELSE IF x.t = "str" /\ Len(x.v) > 0 /\ \A i \in 1..Len(x.v) : \E d \in 1..10 : Digits[d] = x.v[i]
    THEN [ok |-> TRUE, value |-> DigitsValue(x.v)]
  ELSE [ok |-> FALSE, value |-> 0]

\* truth value of a JSON value
Truthy(x) ==
  CASE x.t = "num" -> x.v # 0
    [] x.t = "str" -> Len(x.v) > 0
    [] x.t = "list" -> Len(x.v) > 0
    [] x.t = "obj" -> DOMAIN x.v # {}
    [] OTHER -> FALSE

\* len(x): [ok, value]; ok = FALSE stands for TypeError
PyLen(x) ==
  CASE x.t = "str" -> [ok |-> TRUE, value |-> Len(x.v)]
    [] x.t = "list" -> [ok |-> TRUE, value |-> Len(x.v)]
    [] x.t = "obj" -> [ok |-> TRUE, value |-> Cardinality(DOMAIN x.v)]
    [] OTHER -> [ok |-> FALSE, value |-> 0]

\* the keys of a dict as a sequence
RECURSIVE KeySeq(_)
KeySeq(K) == IF K = {} THEN <<>> ELSE LET k == CHOOSE x \in K : TRUE IN <<JStr(<<k>>)>> \o KeySeq(K \ {k})

\* enumerate(x): [ok, items]; ok = FALSE stands for TypeError
Enumerate(x) ==
  CASE x.t = "list" -> [ok |-> TRUE, items |-> x.v]
    [] x.t = "obj" -> [ok |-> TRUE, items |-> KeySeq(DOMAIN x.v)]
    [] x.t = "str" -> [ok |-> TRUE, items |-> [i \in 1..Len(x.v) |-> JStr(<<x.v[i]>>)]]
    [] OTHER -> [ok |-> FALSE, items |-> <<>>]

ReadingA == JObj([location |-> JStr(<<"A">>), temperature |-> JNum(25), smoke_level |-> JNum(15)])
ReadingB == JObj([location |-> JStr(<<"B">>), temperature |-> JNum(75), smoke_level |-> JStr(<<"8", "5">>),
                  timestamp |-> JStr(<<"7", "Z">>)])
ReadingBadTemp == JObj([location |-> JStr(<<"C">>), temperature |-> JStr(<<"h", "o", "t">>),
                        smoke_level |-> JNum(55)])

\* readings whose timestamp is not a string, and is a string that is no date
ReadingNumTs == JObj([location |-> JStr(<<"D">>), temperature |-> JNum(45), smoke_level |-> JNum(55),
                      timestamp |-> JNum(5)])
ReadingBadTs == JObj([location |-> JStr(<<"E">>), temperature |-> JNum(45), smoke_level |-> JNum(55),
                      timestamp |-> JStr(<<"n", "o", "w">>)])

Readings == {ReadingA, ReadingB}

\* the lists of at most n readings
RECURSIVE ListsUpTo(_)
ListsUpTo(n) ==
  IF n = 0 THEN {<<>>}
  ELSE LET S == ListsUpTo(n - 1) IN S \cup { Append(l, r) : l \in { x \in S : Len(x) = n - 1 }, r \in Readings }

ReadingLists == ListsUpTo(MaxLen)

\* ---------------------------------------------------------------- files on disk
BareList(L) == JList(L)
Wrapped(L) == JObj([sensor_data |-> JList(L)])

\* the JSON documents a file of the model can hold
Documents ==
  { BareList(L) : L \in ReadingLists } \cup { Wrapped(L) : L \in ReadingLists } \cup
  { JObj([sensor_data |-> JList(<<ReadingA>>), status |-> "archived"]),
    JObj([sensor_data |-> JList(<<ReadingA>>),
          bigquery_logging |-> [enabled |-> TRUE, status |-> "success"]]),
    Wrapped(<<ReadingA, ReadingBadTemp>>),
    Wrapped(<<ReadingBadTs, ReadingB>>),
    Wrapped(<<ReadingNumTs>>),
    Wrapped(<<JNum(7)>>),
    JObj([sensor_data |-> JNum(5)]),
    ReadingA,
    JNum(5) }

\* os.path.getsize of a file holding a document
FileSize(doc) == IF doc.t = "list" THEN 2 + Len(doc.v) ELSE IF doc.t = "obj" THEN 10 + Cardinality(DOMAIN doc.v) ELSE 1

\* what open() and json.load() meet at a path where a file is
ExistingFiles ==
  { [io |-> "ok", json |-> d, size |-> FileSize(d)] : d \in Documents }

MissingFile == [io |-> "missing"]

\* a file whose bytes are not UTF-8 text (Latin-1 accents, UTF-16): open(...,
\* encoding='utf-8') lets json.load raise UnicodeDecodeError, a ValueError that
\* is no JSONDecodeError
UndecodableFile == [io |-> "undecodable", size |-> 4]

\* the data directories of the model: empty, or "ab.j" holding any document or
\* undecodable bytes, next to an unreadable "b.j" (no permission) and a
\* malformed "a.t"
Disks ==
  {EmptyDict} \cup
  { [n \in FileNames |-> IF n = FileAB THEN f
                          ELSE IF n = FileB THEN [io |-> "unreadable", size |-> 0]
                          ELSE [io |-> "malformed", size |-> 3]]
      : f \in ExistingFiles \cup {UndecodableFile} }

\* ---------------------------------------------------------------- logging
\* what the store answers to one logging cycle
StoreErrorLists ==
  { <<>>, <<[index |-> 0, reason |-> "invalid"], [index |-> 1, reason |-> "stopped"]>> }

LogEnvs ==
  [fail : {"get_table", "insert"}, errors : {<<>>}] \cup [fail : {"none"}, errors : StoreErrorLists]

\* a sensor timestamp without the fallback for a text that is no date
SensorTimestampUnguarded(reading, detection_timestamp) ==
  LET str == Get(reading, "timestamp", JStr(IsoFormat(detection_timestamp))) IN
  IF str.t # "str" THEN detection_timestamp
  ELSE LET parsed == IF EndsWithZ(str.v) THEN FromIsoFormat(SubSeq(str.v, 1, Len(str.v) - 1))
                     ELSE FromIsoFormat(str.v)
       IN parsed.value

\* the sensor timestamp of a reading (lines 368-376)
SensorTimestamp(reading, detection_timestamp) ==
  LET str == Get(reading, "timestamp", JStr(IsoFormat(detection_timestamp))) IN
  IF str.t # "str" THEN detection_timestamp
  ELSE LET parsed == IF EndsWithZ(str.v) THEN FromIsoFormat(SubSeq(str.v, 1, Len(str.v) - 1))
                     ELSE FromIsoFormat(str.v)
       IN IF parsed.ok THEN parsed.value ELSE detection_timestamp

\* a row numbered from one
BuildRowOneBased(i, reading, n, file_path, file_size, detection_timestamp, detection_id) ==
  IF reading.t # "obj" THEN [ok |-> FALSE, row |-> <<>>]
  ELSE
    LET temperature == Float(Get(reading.v, "temperature", JNum(0)))
        smoke_level == Float(Get(reading.v, "smoke_level", JNum(0)))
    IN IF ~temperature.ok \/ ~smoke_level.ok THEN [ok |-> FALSE, row |-> <<>>]
       ELSE [ok |-> TRUE,
             row |-> [detection_id |-> <<detection_id, i + 1>>,
                      file_name |-> Basename(file_path),
                      file_path |-> file_path,
                      location |-> Get(reading.v, "location", JStr(<<"Unknown">>)),
                      temperature |-> temperature.value,
                      smoke_level |-> smoke_level.value,
                      sensor_timestamp |-> SensorTimestamp(reading.v, detection_timestamp),
                      detection_timestamp |-> detection_timestamp,
                      file_size |-> file_size,
                      total_readings |-> n]]

\* a row that takes 0 for a temperature or smoke level that is no number
BuildRowLenient(i, reading, n, file_path, file_size, detection_timestamp, detection_id) ==
  IF reading.t # "obj" THEN [ok |-> FALSE, row |-> <<>>]
  ELSE
    LET temperature == Float(Get(reading.v, "temperature", JNum(0)))
        smoke_level == Float(Get(reading.v, "smoke_level", JNum(0)))
    IN [ok |-> TRUE,
        row |-> [detection_id |-> <<detection_id, i>>,
                 file_name |-> Basename(file_path),
                 file_path |-> file_path,
                 location |-> Get(reading.v, "location", JStr(<<"Unknown">>)),
                 temperature |-> temperature.value,
                 smoke_level |-> smoke_level.value,
                 sensor_timestamp |-> SensorTimestamp(reading.v, detection_timestamp),
                 detection_timestamp |-> detection_timestamp,
                 file_size |-> file_size,
                 total_readings |-> n]]

\* one row (lines 366-390): [ok, row]; ok = FALSE stands for an exception
BuildRow(i, reading, n, file_path, file_size, detection_timestamp, detection_id) ==
  IF reading.t # "obj" THEN [ok |-> FALSE, row |-> <<>>]
  ELSE
    LET temperature == Float(Get(reading.v, "temperature", JNum(0)))
        smoke_level == Float(Get(reading.v, "smoke_level", JNum(0)))
    IN IF ~temperature.ok \/ ~smoke_level.ok THEN [ok |-> FALSE, row |-> <<>>]
       ELSE [ok |-> TRUE,
             row |-> [detection_id |-> <<detection_id, i>>,
                      file_name |-> Basename(file_path),
                      file_path |-> file_path,
                      location |-> Get(reading.v, "location", JStr(<<"Unknown">>)),
                      temperature |-> temperature.value,
                      smoke_level |-> smoke_level.value,
                      sensor_timestamp |-> SensorTimestamp(reading.v, detection_timestamp),
                      detection_timestamp |-> detection_timestamp,
                      file_size |-> file_size,
                      total_readings |-> n]]

\* an outcome that counts only the rows the store did not reject
InsertErrorsOutcomeAccepted(errors, rows_to_insert) ==
  [enabled |-> TRUE, status |-> "insert_errors", errors |-> errors,
   rows_attempted |-> Len(rows_to_insert) - 1]

\* the outcome for row errors (lines 398-404)
InsertErrorsOutcome(errors, rows_to_insert) ==
  [enabled |-> TRUE, status |-> "insert_errors", errors |-> errors,
   rows_attempted |-> Len(rows_to_insert)]

\* the outcome for an accepted insert (lines 405-412)
SuccessOutcome(rows_to_insert, table_id, detection_id) ==
  [enabled |-> TRUE, status |-> "success", rows_inserted |-> Len(rows_to_insert),
   table_id |-> table_id, detection_id |-> detection_id]

\* the outcome of the except clause (lines 414-420), when len() does not raise
ErrorCaughtOutcome(kind, sensor_data) ==
  [enabled |-> TRUE, status |-> "error", error |-> kind,
   rows_attempted |-> IF Truthy(sensor_data) THEN PyLen(sensor_data).value ELSE 0]

\* _log_to_bigquery: [raised, value, calls, rows, errors, store_fail]; rows are
\* the rows the store took, errors the row errors it reported, store_fail the
\* store call that raised
LogToBigquery(sensor_data, file_path, file_size, detection_timestamp, id_now, env, calls) ==
  IF ~bigquery_enabled \/ bigquery_client = None
    THEN [raised |-> FALSE, value |-> [enabled |-> FALSE, status |-> "bigquery_not_enabled"],
          calls |-> calls, rows |-> <<>>, errors |-> <<>>, store_fail |-> "none"]
  ELSE
    LET detection_id == <<"detection", id_now>>
        items == Enumerate(sensor_data)
        n == PyLen(sensor_data).value
        built == [i \in 1..Len(items.items) |->
                    BuildRow(i - 1, items.items[i], n, file_path, file_size,
                             detection_timestamp, detection_id)]
        rows_to_insert == [i \in 1..Len(items.items) |-> built[i].row]
        c1 == [calls EXCEPT !.get_table = @ + 1]
        c2 == [c1 EXCEPT !.insert = @ + 1]
        \* the except clause of line 414
        handler(kind, cs) ==
          IF Truthy(sensor_data) /\ ~PyLen(sensor_data).ok
            THEN [raised |-> TRUE, value |-> [exception |-> "TypeError"],
                  calls |-> cs, rows |-> <<>>, errors |-> <<>>, store_fail |-> "none"]
            ELSE [raised |-> FALSE, value |-> ErrorCaughtOutcome(kind, sensor_data),
                  calls |-> cs, rows |-> <<>>, errors |-> <<>>,
                  store_fail |-> IF kind = "store" THEN env.fail ELSE "none"]
    IN
    IF ~items.ok THEN handler("TypeError", calls)
    ELSE IF \E i \in 1..Len(items.items) : ~built[i].ok THEN handler("row", calls)
    ELSE IF env.fail = "get_table" THEN handler("store", c1)
    ELSE IF env.fail = "insert" THEN handler("store", c2)
    ELSE IF Len(env.errors) > 0
      THEN [raised |-> FALSE, value |-> InsertErrorsOutcome(env.errors, rows_to_insert),
            calls |-> c2, rows |-> <<>>, errors |-> env.errors, store_fail |-> "none"]
      ELSE [raised |-> FALSE,
            value |-> SuccessOutcome(rows_to_insert,
                                     <<project_id, "disaster_response", "sensor_readings">>,
                                     detection_id),
            calls |-> c2, rows |-> rows_to_insert, errors |-> <<>>, store_fail |-> "none"]

\* ---------------------------------------------------------------- reading
\* datetime.now().isoformat() + 'Z'
Stamp(now) == IsoFormat(now) \o <<"Z">>

\* the outcome of an except clause of _read_json_file (lines 308-337)
ErrorOutcome(status, file_path, now) ==
  [status |-> status, error |-> <<status, file_path>>, timestamp |-> Stamp(now),
   bigquery_logging |-> [enabled |-> bigquery_enabled, status |-> "no_data_to_log"]]

\* _read_json_file: [value, calls, rows, errors, store_fail]
ReadJsonFile(file_path, file, now, id_now, env, calls) ==
  LET c1 == [calls EXCEPT !.open = @ + 1]
      quiet(v) == [value |-> v, calls |-> c1, rows |-> <<>>, errors |-> <<>>, store_fail |-> "none"]
  IN
  CASE file.io = "missing" -> quiet(ErrorOutcome("file_not_found", file_path, now))
    [] file.io = "malformed" -> quiet(ErrorOutcome("invalid_json", file_path, now))
    [] file.io = "unreadable" -> quiet(ErrorOutcome("read_error", file_path, now))
    [] file.io = "undecodable" -> quiet(ErrorOutcome("read_error", file_path, now))
    [] OTHER ->
      LET data == file.json IN
      IF data.t # "obj" THEN quiet(ErrorOutcome("read_error", file_path, now))   \* no .get
      ELSE
        LET result0 ==
              [status |-> "data_detected",
               sensor_data |-> Get(data.v, "sensor_data", data),
               detection_info |-> [file_path |-> file_path,
                                   file_name |-> Basename(file_path),
                                   file_size |-> file.size,
                                   read_timestamp |-> Stamp(now)],
               bigquery_logging |-> [enabled |-> bigquery_enabled, status |-> "not_attempted"]]
            result == IF "sensor_data" \in DOMAIN data.v
                        THEN Update(result0, data.v)
                        ELSE [result0 EXCEPT !.sensor_data = data]
        IN
        IF bigquery_enabled /\ table_created
          THEN LET log == LogToBigquery(result.sensor_data, file_path, file.size, now, id_now, env, c1) IN
               IF log.raised
                 THEN [value |-> ErrorOutcome("read_error", file_path, id_now),
                       calls |-> log.calls, rows |-> <<>>, errors |-> <<>>, store_fail |-> "none"]
                 ELSE [value |-> [result EXCEPT !.bigquery_logging = log.value],
                       calls |-> log.calls, rows |-> log.rows, errors |-> log.errors,
                       store_fail |-> log.store_fail]
          ELSE quiet(result)

\* what open() meets at a path
FileAt(p) ==
  IF FileExists(p) THEN disk[CHOOSE n \in DOMAIN disk : p = PathJoin(DataDirectory, n)]
  ELSE MissingFile

\* the values of input_data's file_path and pattern keys; <<>> is the empty string
FilePaths == {<<>>, NonStr, OutsidePath, FileB, FileAB}
PatternInputs == (Patterns \ {DefaultPattern}) \cup {NonStr}

\* the argument of detect_and_read: a dict with neither, either or both keys
InputDatas ==
  {EmptyDict} \cup [pattern : PatternInputs] \cup [file_path : FilePaths]
    \cup [file_path : {FileAB}, pattern : {<<Dot, ChT>>}]

\* the next readings of the clock
ClockNext(now) == { n \in {now, now + 1} : n <= MaxClock }

\* the state after one operation
Finish(op, raised, value, input, file, opened, found, r) ==
  /\ Len(store_rows) + Len(r.rows) <= MaxRows
  /\ store_rows' = store_rows \o r.rows
  /\ ret' = [op |-> op, raised |-> raised, value |-> value]
  /\ cycle' = [calls |-> r.calls, input |-> input, file |-> file, opened |-> opened,
               found |-> found, inserted |-> r.rows, store_errors |-> r.errors,
               store_fail |-> r.store_fail]

Nothing(calls) == [calls |-> calls, rows |-> <<>>, errors |-> <<>>, store_fail |-> "none"]

Init ==
  /\ phase = "unconstructed"
  /\ BIGQUERY_AVAILABLE \in BOOLEAN
  /\ project_id = None
  /\ bigquery_client = None
  /\ bigquery_enabled = FALSE
  /\ table_created = FALSE
  /\ store_dataset \in BOOLEAN
  /\ store_table \in BOOLEAN
  /\ store_table => store_dataset
  /\ ~BIGQUERY_AVAILABLE => ~store_dataset   \* without the client library the store is never reached
  /\ store_rows = <<>>
  /\ clock = 0
  /\ dir_exists \in BOOLEAN
  /\ disk \in Disks
  /\ ~dir_exists => disk = EmptyDict
  /\ cycle = NoCycle
  /\ ret = [op |-> "none", raised |-> FALSE, value |-> [none |-> TRUE]]
  /\ session = <<>>

\* the answers of a store that is not called
NoLogEnv == [fail |-> "none", errors |-> <<>>]

\* detect_and_read
DetectAndRead ==
  /\ phase = "ready"
  /\ \E input \in InputDatas :
       LET specific_file == Get(input, "file_path", <<>>)   \* None and "" are both false
           pattern == Get(input, "pattern", DefaultPattern)
           searches == specific_file = <<>>
           c0 == IF searches THEN [NoCalls EXCEPT !.find = 1] ELSE NoCalls
           \* os.path.isabs (line 254) and os.path.join (line 236) reject a non-string
           raises == IF searches THEN pattern = NonStr /\ dir_exists ELSE specific_file = NonStr
           json_files == IF searches /\ pattern # NonStr THEN FindJsonFiles(pattern) ELSE <<>>
       IN
       IF raises
         THEN /\ clock' = clock
              /\ Finish("detect_and_read", TRUE, [exception |-> "TypeError"], input,
                        [io |-> "none"], <<>>, <<>>, Nothing(c0))
       ELSE IF searches /\ json_files = <<>>
         THEN \E now \in ClockNext(clock) :
              /\ clock' = now
              /\ Finish("detect_and_read", FALSE,
                        [status |-> "no_data_found",
                         message |-> <<"No JSON files found in", DataDirectory>>,
                         timestamp |-> Stamp(now),
                         detection_info |-> [directory_checked |-> DataDirectory,
                                             pattern_searched |-> pattern,
                                             files_found |-> 0],
                         bigquery_logging |-> [enabled |-> bigquery_enabled,
                                               status |-> "no_data_to_log"]],
                        input, [io |-> "none"], <<>>, json_files, Nothing(c0))
       ELSE
         LET file_path == IF searches THEN json_files[1]          \* the first available file
                          ELSE IF IsAbs(specific_file) THEN specific_file
                          ELSE PathJoin(DataDirectory, specific_file)
             file == FileAt(file_path)
             \* the store and the second clock reading are met only by _log_to_bigquery
             logs == bigquery_enabled /\ table_created /\ file.io = "ok" /\ file.json.t = "obj"
         IN \E now \in ClockNext(clock), env \in IF logs THEN LogEnvs ELSE {NoLogEnv} :
              \E id_now \in IF logs THEN ClockNext(now) ELSE {now} :
                \E r \in {ReadJsonFile(file_path, file, now, id_now, env, c0)} :
                  /\ clock' = id_now
                  /\ Finish("detect_and_read", FALSE, r.value, input, file, file_path,
                            json_files, r)
  /\ UNCHANGED <<phase, BIGQUERY_AVAILABLE, project_id, agent, store_dataset, store_table,
                 dir_exists, disk, session>>

\* a query that gives up on the store once it has failed
QueryHistoricalDataDisabling ==
  /\ phase = "ready"
  /\ \E answer \in {"answer", "raise"} :
       /\ IF ~bigquery_enabled \/ bigquery_client = None
            THEN Finish("query_historical_data", FALSE, [available |-> FALSE], EmptyDict,
                        [io |-> "none"], <<>>, <<>>, Nothing(NoCalls))
            ELSE Finish("query_historical_data", FALSE,
                     IF answer = "raise" THEN [available |-> FALSE]
                     ELSE [available |-> TRUE,
                           rows |-> [i \in 1..Len(store_rows) |->
                                       [location |-> store_rows[i].location,
                                        temperature |-> store_rows[i].temperature,
                                        smoke_level |-> store_rows[i].smoke_level,
                                        sensor_timestamp |-> IsoFormat(store_rows[i].sensor_timestamp),
                                        detection_timestamp |-> IsoFormat(store_rows[i].detection_timestamp)]]],
                     EmptyDict, [io |-> "none"], <<>>, <<>>,
                     Nothing([NoCalls EXCEPT !.query = 1]))
       /\ bigquery_enabled' = (bigquery_enabled /\ answer = "answer")
  /\ UNCHANGED <<phase, BIGQUERY_AVAILABLE, project_id, bigquery_client, table_created,
                 store_dataset, store_table, clock, dir_exists, disk, session>>

\* query_historical_data: None, or the rows the store answers with
QueryHistoricalData ==
  /\ phase = "ready"
  /\ \E answer \in {"answer", "raise"} :
       IF ~bigquery_enabled \/ bigquery_client = None
         THEN Finish("query_historical_data", FALSE, [available |-> FALSE], EmptyDict,
                     [io |-> "none"], <<>>, <<>>, Nothing(NoCalls))
         ELSE Finish("query_historical_data", FALSE,
                     IF answer = "raise" THEN [available |-> FALSE]
                     ELSE [available |-> TRUE,
                           rows |-> [i \in 1..Len(store_rows) |->
                                       [location |-> store_rows[i].location,
                                        temperature |-> store_rows[i].temperature,
                                        smoke_level |-> store_rows[i].smoke_level,
                                        sensor_timestamp |-> IsoFormat(store_rows[i].sensor_timestamp),
                                        detection_timestamp |-> IsoFormat(store_rows[i].detection_timestamp)]]],
                     EmptyDict, [io |-> "none"], <<>>, <<>>,
                     Nothing([NoCalls EXCEPT !.query = 1]))
  /\ UNCHANGED <<phase, BIGQUERY_AVAILABLE, project_id, agent, store_dataset, store_table,
                 clock, dir_exists, disk, session>>

\* get_bigquery_status
GetBigqueryStatus ==
  /\ phase = "ready"
  /\ Finish("get_bigquery_status", FALSE,
            [bigquery_available |-> BIGQUERY_AVAILABLE,
             bigquery_enabled |-> bigquery_enabled,
             project_id |-> project_id,
             table_created |-> table_created],
            EmptyDict, [io |-> "none"], <<>>, <<>>, Nothing(NoCalls))
  /\ UNCHANGED <<phase, BIGQUERY_AVAILABLE, project_id, agent, store_dataset, store_table,
                 clock, dir_exists, disk, session>>

Next == Construct \/ DetectAndRead \/ QueryHistoricalData \/ GetBigqueryStatus

Spec == Init /\ [][Next]_vars

\* ---------------------------------------------------------------- risk classifier
\* agents/analysis_agent.py is not among the sources; the classifier is the
\* one the specification describes (Risk Classifier: classify and aggregate).
TemperatureHigh == 60
TemperatureMedium == 40
SmokeHigh == 70
SmokeMedium == 40

\* a classifier whose high thresholds must be exceeded
ClassifyStrict(reading) ==
  LET t == reading.temperature
      sm == reading.smoke_level
      temperature_reasons == IF t > TemperatureHigh THEN <<"temperature_high">>
                             ELSE IF t >= TemperatureMedium THEN <<"temperature_medium">>
                             ELSE <<>>
      smoke_reasons == IF sm > SmokeHigh THEN <<"smoke_high">>
                       ELSE IF sm >= SmokeMedium THEN <<"smoke_medium">>
                       ELSE <<>>
  IN [location |-> reading.location,
      risk_level |-> IF t > TemperatureHigh /\ sm > SmokeHigh THEN "High"
                     ELSE IF t >= TemperatureMedium \/ sm >= SmokeMedium THEN "Medium"
                     ELSE "Low",
      reasons |-> temperature_reasons \o smoke_reasons]

\* classify(reading): the verdict for one reading; each threshold that is met
\* adds its reason
Classify(reading) ==
  LET t == reading.temperature
      sm == reading.smoke_level
      temperature_reasons == IF t >= TemperatureHigh THEN <<"temperature_high">>
                             ELSE IF t >= TemperatureMedium THEN <<"temperature_medium">>
                             ELSE <<>>
      smoke_reasons == IF sm >= SmokeHigh THEN <<"smoke_high">>
                       ELSE IF sm >= SmokeMedium THEN <<"smoke_medium">>
                       ELSE <<>>
  IN [location |-> reading.location,
      risk_level |-> IF t >= TemperatureHigh /\ sm >= SmokeHigh THEN "High"
                     ELSE IF t >= TemperatureMedium \/ sm >= SmokeMedium THEN "Medium"
                     ELSE "Low",
      reasons |-> temperature_reasons \o smoke_reasons]

\* High > Medium > Low
Severity(level) == IF level = "High" THEN 2 ELSE IF level = "Medium" THEN 1 ELSE 0

\* aggregate(verdicts): the maximum severity; Low for no verdict
RECURSIVE Aggregate(_)
Aggregate(verdicts) ==
  IF verdicts = <<>> THEN "Low"
  ELSE LET rest == Aggregate(Tail(verdicts)) IN
       IF Severity(Head(verdicts).risk_level) >= Severity(rest) THEN Head(verdicts).risk_level
       ELSE rest

\* AnalysisAgent.run(session, input_data): the AnalysisResult of a request
AnalysisAgentRun(input_data, now) ==
  LET readings == input_data.sensor_data
      analysis == [i \in 1..Len(readings) |-> Classify(readings[i])]
  IN [overall_risk_level |-> Aggregate(analysis),
      total_readings |-> Len(readings),
      analysis |-> analysis,
      timestamp |-> Stamp(now)]

\* ---------------------------------------------------------------- orchestrator
\* the readings of run_sample_analysis
SampleA == [location |-> "Building A - Floor 3", temperature |-> 25, smoke_level |-> 15,
            timestamp |-> "2025-01-11T10:30:00Z"]
SampleB == [location |-> "Building B - Basement", temperature |-> 45, smoke_level |-> 55,
            timestamp |-> "2025-01-11T10:31:00Z"]
SampleC == [location |-> "Building C - Server Room", temperature |-> 75, smoke_level |-> 85,
            timestamp |-> "2025-01-11T10:32:00Z"]
\* the values of SampleA measured elsewhere at another time
SampleA2 == [location |-> "Test Room", temperature |-> 25, smoke_level |-> 15,
             timestamp |-> "2025-01-11T12:00:00Z"]

SampleReadings == {SampleA, SampleB, SampleC}

\* temperatures and smoke levels on both sides of every threshold, with the
\* values of test_individual_components (30, 20 and 80, 90)
Temperatures == {30, 39, 40, 59, 60, 80}
Smokes == {20, 39, 40, 69, 70, 90}

TestReadings ==
  [location : {"Emergency Test Location"}, temperature : Temperatures, smoke_level : Smokes,
   timestamp : {"2025-01-11T12:05:00Z"}]

\* the batches of at most n sample readings
RECURSIVE BatchesUpTo(_)
BatchesUpTo(n) ==
  IF n = 0 THEN {<<>>}
  ELSE LET S == BatchesUpTo(n - 1) IN
       S \cup { Append(b, r) : b \in { x \in S : Len(x) = n - 1 }, r \in SampleReadings }

\* the request payloads: {"sensor_data": [...]}
Requests ==
  { [sensor_data |-> b] : b \in BatchesUpTo(MaxBatch) } \cup
  { [sensor_data |-> <<r>>] : r \in TestReadings } \cup
  { [sensor_data |-> <<SampleA, SampleC, SampleA2>>] }

\* initialize_session: the session_id
InitializeSession(now) == <<"disaster_response", now>>

\* a call that hands the agent the session's data, which holds no readings
AnalyzeRequestOfSession(sensor_data, now, processing_now) ==
  Update(AnalysisAgentRun([sensor_data |-> <<>>], now),
         [agent_info |-> [agent_name |-> "disaster_analysis_agent",
                          processing_timestamp |-> Stamp(processing_now)]])

\* the result of analyze_sensor_data (lines 88-98): the agent's result with
\* the orchestrator's agent_info added
AnalyzeRequest(sensor_data, now, processing_now) ==
  Update(AnalysisAgentRun(sensor_data, now),
         [agent_info |-> [agent_name |-> "disaster_analysis_agent",
                          processing_timestamp |-> Stamp(processing_now)]])

\* a plan with two tiers only
EmergencyPlanTwoTier(analysis_result) ==
  LET risk_level == analysis_result.overall_risk_level IN
  IF risk_level = "High"
    THEN Update(analysis_result,
                [emergency_actions |-> <<"evacuate", "deploy", "suppress", "notify", "communicate">>,
                 priority |-> "CRITICAL"])
    ELSE Update(analysis_result,
                [emergency_actions |-> <<"monitor", "log", "maintain">>,
                 priority |-> "NORMAL"])

\* the recommendations of process_emergency_request (lines 116-144)
EmergencyPlan(analysis_result) ==
  LET risk_level == analysis_result.overall_risk_level IN
  IF risk_level = "High"
    THEN Update(analysis_result,
                [emergency_actions |-> <<"evacuate", "deploy", "suppress", "notify", "communicate">>,
                 priority |-> "CRITICAL"])
  ELSE IF risk_level = "Medium"
    THEN Update(analysis_result,
                [emergency_actions |-> <<"watch", "prepare", "standby", "increase", "notify">>,
                 priority |-> "HIGH"])
    ELSE Update(analysis_result,
                [emergency_actions |-> <<"monitor", "log", "maintain">>,
                 priority |-> "NORMAL"])

\* the state after an operation of the orchestrator; analysis_result is what
\* analyze_sensor_data returned
Answer(op, request, analysis_result, value, session_now, now) ==
  /\ session' = IF session = <<>> THEN InitializeSession(session_now) ELSE session
  /\ clock' = now
  /\ ret' = [op |-> op, raised |-> FALSE, value |-> value, analysis_result |-> analysis_result]
  /\ cycle' = [NoCycle EXCEPT !.input = request]
  /\ UNCHANGED <<phase, BIGQUERY_AVAILABLE, project_id, agent, store_dataset, store_table,
                 store_rows, dir_exists, disk>>

\* the clock readings of one analysis: the session_id (when a session is
\* made), the agent's timestamp and the processing_timestamp
AnalysisTimes ==
  { t \in (0..MaxClock) \X (0..MaxClock) \X (0..MaxClock) :
      /\ t[1] \in (IF session = <<>> THEN ClockNext(clock) ELSE {clock})
      /\ t[2] \in ClockNext(t[1])
      /\ t[3] \in ClockNext(t[2]) }

\* analyze_sensor_data
AnalyzeSensorData ==
  \E request \in Requests, t \in AnalysisTimes :
    \E result \in {AnalyzeRequest(request, t[2], t[3])} :
      Answer("analyze_sensor_data", request, result, result, t[1], t[3])

\* process_emergency_request
ProcessEmergencyRequest ==
  \E request \in Requests, t \in AnalysisTimes :
    \E result \in {AnalyzeRequest(request, t[2], t[3])} :
      Answer("process_emergency_request", request, result, EmergencyPlan(result), t[1], t[3])

\* the orchestrator after DisasterResponseOrchestrator()
InitOrchestrator ==
  /\ phase = "unconstructed"
  /\ BIGQUERY_AVAILABLE = FALSE
  /\ project_id = None
  /\ bigquery_client = None
  /\ bigquery_enabled = FALSE
  /\ table_created = FALSE
  /\ store_dataset = FALSE
  /\ store_table = FALSE
  /\ store_rows = <<>>
  /\ clock = 0
  /\ dir_exists = FALSE
  /\ disk = EmptyDict
  /\ cycle = NoCycle
  /\ ret = [op |-> "none", raised |-> FALSE, value |-> [none |-> TRUE],
            analysis_result |-> [none |-> TRUE]]
  /\ session = <<>>

NextOrchestrator == AnalyzeSensorData \/ ProcessEmergencyRequest

SpecOrchestrator == InitOrchestrator /\ [][NextOrchestrator]_vars

\* ---------------------------------------------------------------- properties
\* the last operation was detect_and_read
Detected == ret.op = "detect_and_read"

\* the last operation was detect_and_read and it returned an outcome
Returned == Detected /\ ~ret.raised

\* the file of the last cycle parsed as a JSON object holding this document
ReadDocument(doc) == cycle.file.io = "ok" /\ cycle.file.json = doc

\* the store accepted the insert of the last cycle
InsertAccepted == cycle.calls.insert = 1 /\ cycle.store_fail = "none" /\ cycle.store_errors = <<>>

DetectionStatuses == {"no_data_found", "data_detected", "file_not_found", "invalid_json", "read_error"}

\* C1: a file holding the bare list L and a file holding {sensor_data: L} both
\* give a data_detected outcome whose sensor_data is L.
C1_BothShapesAccepted ==
  \A L \in ReadingLists :
    (Returned /\ (ReadDocument(BareList(L)) \/ ReadDocument(Wrapped(L))))
      => (ret.value.status = "data_detected" /\ ret.value.sensor_data = JList(L))

\* C2: detect_and_read never lets an exception escape and always returns an
\* outcome whose status is one of the five detection statuses.
C2_NoExceptionEscapes ==
  Detected => (~ret.raised /\ ret.value.status \in DetectionStatuses)

\* C3: every outcome carries a bigquery_logging object that reflects the
\* logger's state for the cycle: enabled is the logger's flag, success is
\* reported exactly when the store accepted the insert, a disabled logger
\* reports not_attempted or no_data_to_log, and a failed attempt reports
\* insert_errors or error.
C3_LoggingStatusFaithful ==
  Returned =>
    /\ "bigquery_logging" \in DOMAIN ret.value
    /\ LET b == ret.value.bigquery_logging IN
       /\ b.enabled = bigquery_enabled
       /\ (b.status = "success") = InsertAccepted
       /\ ~bigquery_enabled => b.status \in {"not_attempted", "no_data_to_log"}
       /\ (cycle.store_fail # "none" \/ cycle.store_errors # <<>>)
            => b.status \in {"insert_errors", "error"}

\* the calls that connect to the store or set up its schema
SchemaCalls(c) == c.client + c.get_project + c.get_dataset + c.create_dataset + c.create_table

\* C4: once __init__ has returned, no operation changes bigquery_enabled,
\* table_created or the client, and none connects to the store or creates
\* a dataset or a table.
C4_EnablementFrozen ==
  [][phase = "ready" =>
       /\ UNCHANGED <<bigquery_client, bigquery_enabled, table_created>>
       /\ UNCHANGED <<store_dataset, store_table>>
       /\ SchemaCalls(cycle'.calls) = 0]_vars

\* C4 witness: the store raised during a query and the logger is still enabled
C4_Witness ==
  /\ phase = "ready" /\ bigquery_enabled
  /\ ret.op = "query_historical_data" /\ ~ret.value.available
  /\ cycle.calls.query = 1

\* initialisation was attempted and failed
InitFailed == phase = "ready" /\ BIGQUERY_AVAILABLE /\ project_id # None /\ ~bigquery_enabled

\* a file in one of the two documented shapes
WellFormed(file) ==
  file.io = "ok" /\ \E L \in ReadingLists : file.json = BareList(L) \/ file.json = Wrapped(L)

\* C5: a failure of any initialisation step leaves the agent constructed and
\* disabled, and every later detection of a readable, well-formed file returns
\* data_detected with logging status not_attempted and no insert call.
C5_InitFailureNonFatal ==
  /\ (ret.op = "__init__" /\ ret.value.printed = "initialization failed")
       => (phase = "ready" /\ ~bigquery_enabled)
  /\ (Detected /\ InitFailed /\ WellFormed(cycle.file))
       => /\ ~ret.raised
          /\ ret.value.status = "data_detected"
          /\ ret.value.bigquery_logging.status = "not_attempted"
          /\ cycle.calls.insert = 0

\* the paths of the files of the data directory that match a pattern
Matching(pattern) ==
  IF dir_exists THEN { PathJoin(DataDirectory, n) : n \in { m \in DOMAIN disk : GlobMatch(pattern, m) } }
  ELSE {}

\* C6: a given file_path is read as it is, without a search; otherwise the
\* matching files are found in lexicographic order and the first is read; with
\* no directory or no match the outcome is no_data_found with files_found = 0.
C6_SelectionRule ==
  Detected =>
    LET fp == Get(cycle.input, "file_path", <<>>)
        pattern == Get(cycle.input, "pattern", DefaultPattern)
        found == cycle.found
    IN
    /\ (fp # <<>> /\ fp # NonStr) =>
         /\ ~ret.raised
         /\ cycle.calls.find = 0
         /\ cycle.calls.open = 1
         /\ cycle.opened = IF IsAbs(fp) THEN fp ELSE PathJoin(DataDirectory, fp)
    /\ (fp = <<>> /\ pattern # NonStr) =>
         /\ ~ret.raised
         /\ cycle.calls.find = 1
         /\ { found[i] : i \in 1..Len(found) } = Matching(pattern)
         /\ \A i, j \in 1..Len(found) : i < j => StrLess(found[i], found[j])
         /\ found # <<>> => (cycle.calls.open = 1 /\ cycle.opened = found[1])
         /\ found = <<>> => /\ cycle.calls.open = 0
                            /\ ret.value.status = "no_data_found"
                            /\ ret.value.detection_info.files_found = 0

\* C6 witness: two files matched and the first in order was read
C6_Witness ==
  /\ Detected /\ Len(cycle.found) = 2 /\ cycle.opened = cycle.found[1]
  /\ StrLess(cycle.found[1], cycle.found[2])

\* C7: no two rows handed to the store carry the same detection_id.
C7_DetectionIdsUnique ==
  \A i, j \in 1..Len(store_rows) :
    i # j => store_rows[i].detection_id # store_rows[j].detection_id

\* C8: the store only grows; a successful logging cycle of n readings appends
\* exactly n rows, one per reading in input order, numbered 0..n-1, each with
\* total_readings = n, and reports rows_inserted = n; no other step adds rows.
C8_AppendOnly ==
  [][LET old == Len(store_rows)
         new == SubSeq(store_rows', old + 1, Len(store_rows'))
         logged == /\ ret'.op = "detect_and_read" /\ ~ret'.raised
                   /\ cycle'.calls.insert = 1
                   /\ ret'.value.bigquery_logging.status = "success"
     IN
     /\ Len(store_rows') >= old
     /\ SubSeq(store_rows', 1, old) = store_rows
     /\ IF logged
          THEN LET sd == ret'.value.sensor_data.v
                   n == Len(sd)
               IN /\ Len(new) = n
                  /\ ret'.value.bigquery_logging.rows_inserted = n
                  /\ \A i \in 1..n :
                       /\ new[i].detection_id[2] = i - 1
                       /\ new[i].detection_id[1] = ret'.value.bigquery_logging.detection_id
                       /\ new[i].total_readings = n
                       /\ new[i].location = Get(sd[i].v, "location", JStr(<<"Unknown">>))
                       /\ new[i].temperature = Float(Get(sd[i].v, "temperature", JNum(0))).value
          ELSE new = <<>>]_vars

\* C8 witness: a batch of two different readings was logged
C8_Witness ==
  /\ Returned /\ InsertAccepted
  /\ Len(cycle.inserted) = 2 /\ Len(store_rows) = 2
  /\ store_rows[1].location # store_rows[2].location

\* C9: when the store returns row errors there is exactly one insert call, the
\* status is insert_errors, the errors are the store's list unchanged and
\* rows_attempted is the number of readings.
C9_InsertErrorsReported ==
  (Returned /\ cycle.store_errors # <<>>) =>
    LET b == ret.value.bigquery_logging IN
    /\ cycle.calls.insert = 1
    /\ b.status = "insert_errors"
    /\ b.errors = cycle.store_errors
    /\ b.rows_attempted = Len(ret.value.sensor_data.v)
    /\ cycle.inserted = <<>>

\* C9 witness: the store rejected rows of a batch of two readings
C9_Witness ==
  /\ Returned /\ cycle.store_errors # <<>>
  /\ Len(ret.value.sensor_data.v) = 2

\* C10: when get_table or the insert raises, the logging outcome is status
\* error with the error text, nothing escapes, and the detection outcome keeps
\* status data_detected with the parsed sensor_data.
C10_StoreFailureCaught ==
  (Detected /\ cycle.store_fail # "none") =>
    /\ ~ret.raised
    /\ ret.value.bigquery_logging.status = "error"
    /\ "error" \in DOMAIN ret.value.bigquery_logging
    /\ ret.value.status = "data_detected"
    /\ ret.value.sensor_data = cycle.file.json.v.sensor_data

\* a reading _log_to_bigquery can make a row of: an object whose temperature
\* and smoke_level are numbers or numeric text
Loggable(reading) ==
  /\ reading.t = "obj"
  /\ Float(Get(reading.v, "temperature", JNum(0))).ok
  /\ Float(Get(reading.v, "smoke_level", JNum(0))).ok

\* the timestamp text of a reading without its trailing 'Z'
TimestampText(reading) ==
  LET s == reading.v.timestamp.v IN IF EndsWithZ(s) THEN SubSeq(s, 1, Len(s) - 1) ELSE s

\* the reading's timestamp is missing, not a string, or no ISO-8601 date
BadTimestamp(reading) ==
  \/ "timestamp" \notin DOMAIN reading.v
  \/ reading.v.timestamp.t # "str"
  \/ ~FromIsoFormat(TimestampText(reading)).ok

\* the last cycle handed a batch of loggable readings to an enabled logger
LoggedBatch ==
  /\ Returned /\ bigquery_enabled /\ table_created
  /\ cycle.file.io = "ok" /\ cycle.file.json.t = "obj"
  /\ "sensor_data" \in DOMAIN cycle.file.json.v
  /\ cycle.file.json.v.sensor_data.t = "list"
  /\ \A i \in 1..Len(cycle.file.json.v.sensor_data.v) : Loggable(cycle.file.json.v.sensor_data.v[i])

\* C11: a reading whose timestamp is missing, not a string or not parseable
\* does not make row building fail: its sensor_timestamp is the detection
\* timestamp, the other readings keep their parsed timestamps, and the batch
\* is inserted and reported as success when the store accepts it.
C11_TimestampFallback ==
  LET sd == cycle.file.json.v.sensor_data.v IN
  (LoggedBatch /\ \E i \in 1..Len(sd) : BadTimestamp(sd[i])) =>
    /\ cycle.store_fail # "get_table" => cycle.calls.insert = 1
    /\ (cycle.store_fail = "none" /\ cycle.store_errors = <<>>) =>
         /\ ret.value.bigquery_logging.status = "success"
         /\ ret.value.bigquery_logging.rows_inserted = Len(sd)
         /\ Len(cycle.inserted) = Len(sd)
         /\ \A i \in 1..Len(sd) :
              /\ cycle.inserted[i].sensor_timestamp =
                   IF BadTimestamp(sd[i]) THEN cycle.inserted[i].detection_timestamp
                   ELSE FromIsoFormat(TimestampText(sd[i])).value
              /\ cycle.inserted[i].location = sd[i].v.location
              /\ cycle.inserted[i].temperature = Float(sd[i].v.temperature).value

\* C11 witness: a batch holding a reading with an unparsable timestamp next to
\* one with a good timestamp was inserted at a detection time other than 0
C11_Witness ==
  /\ LoggedBatch /\ InsertAccepted
  /\ cycle.file.json = Wrapped(<<ReadingBadTs, ReadingB>>)
  /\ cycle.inserted[1].detection_timestamp = 1
  /\ cycle.inserted[1].sensor_timestamp = 1
  /\ cycle.inserted[2].sensor_timestamp = 7

\* the file of the last cycle does not hold valid JSON
NotValidJson == cycle.file.io \in {"malformed", "undecodable"}

\* C12: a file that is not valid JSON gives status invalid_json, a missing
\* file gives file_not_found; in both cases the logging status is
\* no_data_to_log and the store receives no insert call, whether the logger is
\* enabled or not.
C12_NoRecordForBadFile ==
  (Detected /\ (NotValidJson \/ cycle.file.io = "missing")) =>
    /\ ~ret.raised
    /\ ret.value.status = IF NotValidJson THEN "invalid_json" ELSE "file_not_found"
    /\ ret.value.bigquery_logging.status = "no_data_to_log"
    /\ ret.value.bigquery_logging.enabled = bigquery_enabled
    /\ cycle.calls.insert = 0
    /\ cycle.inserted = <<>>

\* C13: when the store answers, schema setup creates the dataset and the
\* table exactly when they are absent and initialisation ends enabled with the
\* table present; this also holds when another party creates the dataset or
\* the table between the existence check and the create call, so that the
\* create call reports 'already exists'.
C13_SchemaSetupIdempotent ==
  [][(phase = "unconstructed" /\ cycle'.calls.get_project = 1
        /\ cycle'.store_fail \in {"none", "dataset_race", "table_race"}) =>
       /\ bigquery_enabled' /\ table_created'
       /\ store_dataset' /\ store_table'
       /\ cycle'.calls.get_dataset = 1 /\ cycle'.calls.get_table = 1
       /\ cycle'.calls.create_dataset = (IF store_dataset THEN 0 ELSE 1)
       /\ cycle'.calls.create_table = (IF store_table THEN 0 ELSE 1)]_vars

\* the last operation was an analysis of the orchestrator
Analysed == ret.op \in {"analyze_sensor_data", "process_emergency_request"}

\* the order of the risk levels
LevelRank == [Low |-> 0, Medium |-> 1, High |-> 2]

C15_ClassifyThresholds ==
  Analysed =>
    LET readings == cycle.input.sensor_data
        verdicts == ret.value.analysis
        level(t, sm) == { verdicts[i].risk_level :
                            i \in { k \in 1..Len(readings) : /\ readings[k].temperature = t
                                                              /\ readings[k].smoke_level = sm } }
    IN /\ \A i \in 1..Len(readings) :
            LET t == readings[i].temperature
                sm == readings[i].smoke_level
            IN /\ (t >= TemperatureHigh /\ sm >= SmokeHigh)
                    => (verdicts[i].risk_level = "High" /\ Len(verdicts[i].reasons) >= 2)
               /\ (t < TemperatureMedium /\ sm < SmokeMedium)
                    => (verdicts[i].risk_level = "Low" /\ verdicts[i].reasons = <<>>)
               /\ \A j \in 1..Len(readings) :
                    (readings[j].temperature = t /\ readings[j].smoke_level = sm)
                      => /\ verdicts[j].risk_level = verdicts[i].risk_level
                         /\ verdicts[j].reasons = verdicts[i].reasons
       /\ level(25, 15) \subseteq {"Low"}
       /\ level(45, 55) \subseteq {"Medium"}
       /\ level(75, 85) \subseteq {"High"}

\* C15 witness: a batch holding the same values from two locations next to
\* a reading above both high thresholds
C15_Witness ==
  /\ Analysed /\ cycle.input.sensor_data = <<SampleA, SampleC, SampleA2>>
  /\ ret.value.analysis[1].risk_level = "Low" /\ ret.value.analysis[3].risk_level = "Low"
  /\ Len(ret.value.analysis[2].reasons) = 2

\* C16: process_emergency_request gives priority CRITICAL exactly for High,
\* HIGH exactly for Medium and NORMAL otherwise, attaches a non-empty
\* emergency_actions list and leaves overall_risk_level, total_readings and
\* analysis as the analysis returned them.
C16_PriorityMapping ==
  ret.op = "process_emergency_request" =>
    LET r == ret.value
        a == ret.analysis_result
    IN /\ (r.priority = "CRITICAL") = (a.overall_risk_level = "High")
       /\ (r.priority = "HIGH") = (a.overall_risk_level = "Medium")
       /\ (r.priority = "NORMAL") = (a.overall_risk_level \notin {"High", "Medium"})
       /\ Len(r.emergency_actions) > 0
       /\ r.overall_risk_level = a.overall_risk_level
       /\ r.total_readings = a.total_readings
       /\ r.analysis = a.analysis

\* C16 witness: a request whose overall level is Medium was given priority HIGH
C16_Witness ==
  /\ ret.op = "process_emergency_request"
  /\ ret.analysis_result.overall_risk_level = "Medium"
  /\ ret.value.priority = "HIGH"
  /\ ret.value.total_readings = 2

\* the file of the last cycle parsed as a JSON object with a sensor_data key
WrappedFile ==
  /\ cycle.file.io = "ok" /\ cycle.file.json.t = "obj"
  /\ "sensor_data" \in DOMAIN cycle.file.json.v

Batch ==
  IF "sensor_data" \in DOMAIN cycle.file.json.v THEN cycle.file.json.v.sensor_data
  ELSE cycle.file.json

\* the last cycle called the logger with something that has a length
LoggerCalled ==
  /\ Returned /\ bigquery_enabled /\ table_created
  /\ cycle.file.io = "ok" /\ cycle.file.json.t = "obj"
  /\ PyLen(Batch).ok

\* a row can be built for every reading of the batch
AllLoggable == \A i \in 1..Len(Enumerate(Batch).items) : Loggable(Enumerate(Batch).items[i])

\* C18: a cycle makes at most one insert call, only with the logger enabled
\* and the table present and only when a row was built for every reading; the
\* store takes all rows of the batch or none; and when a row cannot be built
\* nothing is inserted and the logging outcome is status error with
\* rows_attempted equal to the batch size.
C18_AllOrNothing ==
  Detected =>
    /\ cycle.calls.insert <= 1
    /\ cycle.calls.insert = 1 => (LoggerCalled /\ AllLoggable)
    /\ cycle.inserted # <<>> => (cycle.calls.insert = 1 /\ Len(cycle.inserted) = PyLen(Batch).value)
    /\ (LoggerCalled /\ ~AllLoggable) =>
         /\ cycle.calls.insert = 0
         /\ cycle.inserted = <<>>
         /\ ret.value.bigquery_logging.status = "error"
         /\ ret.value.bigquery_logging.rows_attempted = PyLen(Batch).value

\* C18 witness: the second of two readings has a temperature that is no
\* number; nothing was inserted and two rows are reported as attempted
C18_Witness ==
  /\ LoggerCalled /\ cycle.file.json = Wrapped(<<ReadingA, ReadingBadTemp>>)
  /\ cycle.calls.insert = 0
  /\ ret.value.bigquery_logging.status = "error"
  /\ ret.value.bigquery_logging.rows_attempted = 2

====
